---- MODULE Spec2Model ----
(***************************************************************************)
(* Model of the Airtable multi-table applicant pipeline:                   *)
(*   scripts/compression_script.py    AirtableCompressor                   *)
(*   scripts/decompression_script.py  AirtableDecompressor                 *)
(*   scripts/llm_evaluation.py        LLMEvaluator                         *)
(*   scripts/shortlist_automation.py  ShortlistAutomation                  *)
(* The table store (Airtable) is the state: one record per Applicant and   *)
(* the rows of the Personal Details, Work Experience, Salary Preferences   *)
(* and Shortlisted Leads tables.  A Python dict is a function with a       *)
(* string domain; a key that is absent is a key outside the DOMAIN.        *)
(***************************************************************************)
EXTENDS Integers, Sequences, FiniteSets, TLC

VARIABLES
    applicants,   \* Applicants table: record id -> fields
    personal,     \* Personal Details table: sequence of [id, fields]
    experience,   \* Work Experience table: sequence of [id, fields]
    salary,       \* Salary Preferences table: sequence of [id, fields]
    leads,        \* Shortlisted Leads table: sequence of [id, fields]
    now,          \* the wall clock read by datetime.now()
    evaluated,    \* record id -> the document string of the last recorded LLM evaluation
    batch,        \* the batch driver that runs or ran last: its kind, queue and counters
    last          \* the outcome of the operation that ran last

vars == <<applicants, personal, experience, salary, leads, now, evaluated, batch, last>>

(***************************************************************************)
(* Bounds of the model.                                                    *)
(***************************************************************************)
\* longest experience list of a document, and most Work Experience rows an
\* applicant has before the first operation
MaxExp == 2
\* last tick of the wall clock at which an operation starts
MaxClock == 2

(***************************************************************************)
(* Python and JSON helpers.                                                *)
(***************************************************************************)
EmptyDict == [k \in {} |-> ""]

\* dict.get(k, d)
Get(f, k, d) == IF k \in DOMAIN f THEN f[k] ELSE d

\* A stored document string is [kind, val]: kind "json" for a string json.loads
\* accepts (val is what it parses to), kind "garbage" for one it rejects.
Garbage == [kind |-> "garbage", val |-> EmptyDict]

\* json.dumps(v, indent=2)
JsonDumps(v) == [kind |-> "json", val |-> v]

\* json.loads(s) raises on a malformed string
JsonParses(s) == s.kind = "json"

\* json.loads(s), for a string it accepts
JsonLoads(s) == s.val

(***************************************************************************)
(* Table store: search, update, create, delete.                            *)
(***************************************************************************)
\* Airtable.search('Applicant', applicant_id): the rows linked to the applicant,
\* in table order
Search(table, a) ==
    SelectSeq(table, LAMBDA r : Get(r.fields, "Applicant", <<>>) = <<a>>)

RowIds(table) == {table[i].id : i \in 1..Len(table)}

\* the record ids the store hands out for the next n creates: ids no row of the
\* table carries and none carried when the operation began
FreshIds(used, n) ==
    LET pool == 1..(Cardinality(used) + n)
        free == pool \ used
        Pick[i \in 0..n] ==
            IF i = 0 THEN <<>>
            ELSE LET prev == Pick[i - 1]
                     rest == free \ {prev[j] : j \in 1..Len(prev)}
                 IN Append(prev, CHOOSE x \in rest : \A y \in rest : x <= y)
    IN Pick[n]

\* Airtable.update(record_id, fields): the given fields replace the stored ones,
\* the other fields stay
UpdateRow(table, id, fields) ==
    [i \in 1..Len(table) |->
        IF table[i].id = id
        THEN [id |-> id, fields |-> fields @@ table[i].fields]
        ELSE table[i]]

\* Airtable.create(fields)
CreateRow(table, used, fields) ==
    Append(table, [id |-> FreshIds(used, 1)[1], fields |-> fields])

\* Airtable.delete(record_id), for every id of the set
DeleteRows(table, ids) == SelectSeq(table, LAMBDA r : r.id \notin ids)

(***************************************************************************)
(* Field Mapper: native rows to canonical sections (compression) and back  *)
(* (decompression).                                                        *)
(***************************************************************************)
PersonalToCanonical(p) ==
    [name     |-> Get(p, "Full Name", ""),
     email    |-> Get(p, "Email", ""),
     location |-> Get(p, "Location", ""),
     linkedin |-> Get(p, "LinkedIn", "")]

ExperienceToCanonical(e) ==
    [company      |-> Get(e, "Company", ""),
     title        |-> Get(e, "Title", ""),
     start        |-> Get(e, "Start Date", ""),
     end          |-> Get(e, "End Date", ""),
     technologies |-> Get(e, "Technologies", <<>>),
     current      |-> Get(e, "Current Position", FALSE)]

\* a faulty variant of SalaryToCanonical: the two rates are read from each other's field
SalaryToCanonicalSwapsRates(s) ==
    [preferred_rate |-> Get(s, "Minimum Rate", 0),
     minimum_rate   |-> Get(s, "Preferred Rate", 0),
     currency       |-> Get(s, "Currency", "USD"),
     availability   |-> Get(s, "Availability", 0)]

SalaryToCanonical(s) ==
    [preferred_rate |-> Get(s, "Preferred Rate", 0),
     minimum_rate   |-> Get(s, "Minimum Rate", 0),
     currency       |-> Get(s, "Currency", "USD"),
     availability   |-> Get(s, "Availability", 0)]

PersonalToNative(a, pd) ==
    ("Full Name" :> Get(pd, "name", "")) @@
    ("Email"     :> Get(pd, "email", "")) @@
    ("Location"  :> Get(pd, "location", "")) @@
    ("LinkedIn"  :> Get(pd, "linkedin", "")) @@
    ("Applicant" :> <<a>>)

\* a faulty variant of ExperienceToNative: the end date is written whatever the current flag
ExperienceToNativeKeepsEnd(a, exp) ==
    ("Company"          :> Get(exp, "company", "")) @@
    ("Title"            :> Get(exp, "title", "")) @@
    ("Start Date"       :> Get(exp, "start", "")) @@
    ("End Date"         :> Get(exp, "end", "")) @@
    ("Technologies"     :> Get(exp, "technologies", <<>>)) @@
    ("Current Position" :> Get(exp, "current", FALSE)) @@
    ("Applicant"        :> <<a>>)

ExperienceToNative(a, exp) ==
    ("Company"          :> Get(exp, "company", "")) @@
    ("Title"            :> Get(exp, "title", "")) @@
    ("Start Date"       :> Get(exp, "start", "")) @@
    ("End Date"         :> IF ~Get(exp, "current", FALSE)
                           THEN Get(exp, "end", "") ELSE "") @@
    ("Technologies"     :> Get(exp, "technologies", <<>>)) @@
    ("Current Position" :> Get(exp, "current", FALSE)) @@
    ("Applicant"        :> <<a>>)

SalaryToNative(a, sd) ==
    ("Preferred Rate" :> Get(sd, "preferred_rate", 0)) @@
    ("Minimum Rate"   :> Get(sd, "minimum_rate", 0)) @@
    ("Currency"       :> Get(sd, "currency", "USD")) @@
    ("Availability"   :> Get(sd, "availability", 0)) @@
    ("Applicant"      :> <<a>>)

(***************************************************************************)
(* Sample data: the values the rows and the documents are drawn from.      *)
(***************************************************************************)
\* fields of a Personal Details row as the form leaves them (no link yet)
PersonalRows ==
    { ("Full Name" :> "Ann") @@ ("Email" :> "ann@x.com") @@
      ("Location" :> "Mars") @@ ("LinkedIn" :> "in/ann") }

\* fields of a Work Experience row; Airtable leaves an empty field out
ExperienceRows ==
    { ("Company" :> "Initech") @@ ("Title" :> "QA") @@ ("Start Date" :> "2010-01-01") @@
      ("End Date" :> "2011-01-01") @@ ("Technologies" :> <<"cobol">>) }

\* fields of a Salary Preferences row
SalaryRows ==
    { ("Preferred Rate" :> 120) @@ ("Minimum Rate" :> 100) @@
      ("Currency" :> "EUR") @@ ("Availability" :> 10) }

\* experience entries of documents; the last is current and still carries an end
ExperienceEntries ==
    { [company |-> "Acme", title |-> "Dev", start |-> "2015-01-01",
       end |-> "2019-06-01", technologies |-> <<"python">>, current |-> FALSE],
      [company |-> "Beta", title |-> "Lead", start |-> "2019-07-01",
       end |-> "2022-12-01", technologies |-> <<"go", "sql">>, current |-> FALSE],
      [company |-> "Google", title |-> "SRE", start |-> "2023-01-01",
       end |-> "2024-01-01", technologies |-> <<>>, current |-> TRUE] }

\* sequences over S of length at most n
SeqsUpTo(S, n) == UNION {[1..k -> S] : k \in 0..n}

\* those that list no element twice
ListsUpTo(S, n) ==
    {q \in SeqsUpTo(S, n) : \A i, j \in 1..Len(q) : i # j => q[i] # q[j]}

\* a document as the Compressor shapes it
Canonical(e) ==
    [personal   |-> [name |-> "Cy", email |-> "cy@z.net", location |-> "Berlin",
                     linkedin |-> "in/cy"],
     experience |-> e,
     salary     |-> [preferred_rate |-> 50, minimum_rate |-> 40, currency |-> "USD",
                     availability |-> 20],
     metadata   |-> [compressed_at |-> 0, version |-> "1.0"]]

\* a document edited by hand: keys are missing in every section
HandEdited ==
    [personal   |-> [name |-> "Dee"],
     experience |-> <<[company |-> "Globex", current |-> TRUE]>>,
     salary     |-> [preferred_rate |-> 90, minimum_rate |-> 80, availability |-> 30]]

\* the parsed documents an Applicant record may hold before the first operation
Documents ==
    {Canonical(e) : e \in ListsUpTo(ExperienceEntries, MaxExp)} \cup {HandEdited}

\* the document strings an Applicant record may hold before the first operation
DocumentStrings == {JsonDumps(d) : d \in Documents} \cup {Garbage}

(***************************************************************************)
(* Outcome of the last operation.  result is what the caller gets: "doc",  *)
(* "none" or "raise" for compress, "ok" or "fail" for decompress, "true",  *)
(* "false" or "raise" for the LLM evaluation, "shortlisted" or "rejected"  *)
(* for the shortlisting.  cause says why it failed, errs which calls       *)
(* errored, had what the applicant's sub-tables held when it began.        *)
(***************************************************************************)
Had(a) ==
    [personal   |-> Search(personal, a) # <<>>,
     salary     |-> Search(salary, a) # <<>>,
     experience |-> Len(Search(experience, a))]

Outcome(op, a, result, cause, errs) ==
    [op |-> op, id |-> a, result |-> result, cause |-> cause, errs |-> errs,
     had |-> Had(a)]

(***************************************************************************)
(* AirtableCompressor                                                      *)
(***************************************************************************)
\* a value Python takes for true: a dict with at least one key
Truthy(d) == DOMAIN d # {}

\* a faulty variant of FetchPersonalData: an empty record with defaults instead of None
FetchPersonalDataDefaults(a, errs) ==
    LET records == Search(personal, a)
    IN IF "personal" \notin errs /\ records # <<>> THEN records[1].fields
       ELSE "Full Name" :> ""

\* _fetch_personal_data: the first linked row's fields; None (here the empty
\* dict, which is as false) when there is none or when the search errors
FetchPersonalData(a, errs) ==
    LET records == Search(personal, a)
    IN IF "personal" \in errs THEN EmptyDict
       ELSE IF records # <<>> THEN records[1].fields ELSE EmptyDict

\* _fetch_experience_data: the fields of every linked row; [] when the search errors
FetchExperienceData(a, errs) ==
    LET records == Search(experience, a)
    IN IF "experience" \in errs THEN <<>>
       ELSE [i \in 1..Len(records) |-> records[i].fields]

\* _fetch_salary_data
FetchSalaryData(a, errs) ==
    LET records == Search(salary, a)
    IN IF "salary" \in errs THEN EmptyDict
       ELSE IF records # <<>> THEN records[1].fields ELSE EmptyDict

\* the compressed_json dict compress_applicant_data builds
CompressedJson(personal_data, experience_data, salary_data, t) ==
    [personal   |-> PersonalToCanonical(personal_data),
     experience |-> [i \in 1..Len(experience_data) |->
                        ExperienceToCanonical(experience_data[i])],
     salary     |-> SalaryToCanonical(salary_data),
     metadata   |-> [compressed_at |-> t, version |-> "1.0"]]

\* a faulty variant of MissingRequired: only the personal data is checked
MissingRequiredPersonalOnly(personal_data, salary_data) == ~Truthy(personal_data)

\* the check of the fetched data: not all([personal_data, salary_data])
MissingRequired(personal_data, salary_data) ==
    ~(Truthy(personal_data) /\ Truthy(salary_data))

\* a faulty variant of CompressedFields: the decompression stamp is written as well
CompressedFieldsStampsBoth(json_string, t) ==
    ("Compressed JSON" :> json_string) @@ ("Last Compressed" :> t) @@
    ("Last Decompressed" :> t)

\* the field map compress_applicant_data writes to the Applicant record
CompressedFields(json_string, t) ==
    ("Compressed JSON" :> json_string) @@ ("Last Compressed" :> t)

\* the table store calls of compress_applicant_data that may error
CompressCalls == {"personal", "experience", "salary", "update"}

\* compress_applicant_data(applicant_id), with the store calls of errs erroring
CompressApplicantData(a, errs) ==
    LET personal_data   == FetchPersonalData(a, errs)
        experience_data == FetchExperienceData(a, errs)
        salary_data     == FetchSalaryData(a, errs)
        missing         == MissingRequired(personal_data, salary_data)
        compressed_json == CompressedJson(personal_data, experience_data, salary_data, now)
        json_string     == JsonDumps(compressed_json)
        result          == IF missing THEN "none"
                           ELSE IF "update" \in errs THEN "raise" ELSE "doc"
        cause           == IF missing THEN "missing"
                           ELSE IF "update" \in errs THEN "store" ELSE "none"
    IN /\ missing => "update" \notin errs
       /\ applicants' = IF result = "doc"
                        THEN [applicants EXCEPT ![a] = CompressedFields(json_string, now) @@ @]
                        ELSE applicants
       /\ last' = Outcome("compress", a, result, cause, errs)
       /\ UNCHANGED <<personal, experience, salary, leads, evaluated>>

(***************************************************************************)
(* AirtableDecompressor                                                    *)
(***************************************************************************)
\* with call k the one that errors (0: none does), whether call i completes
Done(k, i) == k = 0 \/ k > i

\* how many of the count calls first, first+1, ... complete
Completed(k, first, count) ==
    IF k = 0 \/ k >= first + count THEN count
    ELSE IF k < first THEN 0 ELSE k - first

\* a faulty variant of Upsert: a row is created whether or not one exists
UpsertAlwaysCreates(table, a, update_data) ==
    CreateRow(table, RowIds(table), update_data)

\* the update-or-create of _update_personal_details and _update_salary_preferences
Upsert(table, a, update_data) ==
    LET existing_records == Search(table, a)
    IN IF existing_records # <<>>
       THEN UpdateRow(table, existing_records[1].id, update_data)
       ELSE CreateRow(table, RowIds(table), update_data)

\* _update_personal_details
UpdatePersonalDetails(a, personal_data) ==
    Upsert(personal, a, PersonalToNative(a, personal_data))

\* a faulty variant of UpdateSalaryPreferences: a row is created each time
UpdateSalaryPreferencesCreates(a, salary_data) ==
    CreateRow(salary, RowIds(salary), SalaryToNative(a, salary_data))

\* _update_salary_preferences
UpdateSalaryPreferences(a, salary_data) ==
    Upsert(salary, a, SalaryToNative(a, salary_data))

\* a faulty variant of UpdateWorkExperience: the existing rows are not deleted
UpdateWorkExperienceKeepsRows(a, experience_data, dels, news) ==
    LET ids   == FreshIds(RowIds(experience), news)
        fresh == [j \in 1..news |->
                    [id |-> ids[j], fields |-> ExperienceToNative(a, experience_data[j])]]
    IN experience \o fresh

\* _update_work_experience, stopped after dels deletes and news creates
UpdateWorkExperience(a, experience_data, dels, news) ==
    LET existing_records == Search(experience, a)
        gone  == {existing_records[j].id : j \in 1..dels}
        ids   == FreshIds(RowIds(experience), news)
        fresh == [j \in 1..news |->
                    [id |-> ids[j], fields |-> ExperienceToNative(a, experience_data[j])]]
    IN DeleteRows(experience, gone) \o fresh

\* a faulty variant of DecompressedFields: no stamp is written
DecompressedFieldsWithoutStamp(t) == EmptyDict

\* the field map decompress_applicant_data writes to the Applicant record
DecompressedFields(t) == "Last Decompressed" :> t

\* the number of table store calls decompress_applicant_data makes
DecompressCalls(a) ==
    LET fields == applicants[a]
    IN IF "Compressed JSON" \notin DOMAIN fields THEN 1
       ELSE IF ~JsonParses(fields["Compressed JSON"]) THEN 1
       ELSE 7 + Len(Search(experience, a))
              + Len(Get(JsonLoads(fields["Compressed JSON"]), "experience", <<>>))

\* the name of the k-th table store call of decompress_applicant_data, for an
\* applicant with m Work Experience rows and a document of n experience entries
DecompressCall(k, m, n) ==
    IF k = 1 THEN "applicant.get"
    ELSE IF k = 2 THEN "personal.search"
    ELSE IF k = 3 THEN "personal.write"
    ELSE IF k = 4 THEN "experience.search"
    ELSE IF k <= 4 + m THEN "experience.delete"
    ELSE IF k <= 4 + m + n THEN "experience.create"
    ELSE IF k = 5 + m + n THEN "salary.search"
    ELSE IF k = 6 + m + n THEN "salary.write"
    ELSE "applicant.update"

\* a faulty variant of Runs: the sub-tables are updated without a document too
RunsWithoutDocument(parses, k) == k # 1

\* whether decompress_applicant_data gets to update the sub-tables: the record
\* was read (call 1 did not error), holds a document and the document parses
Runs(parses, k) == parses /\ k # 1

\* a faulty variant of Stamps: the stamp is written although a call errored
StampsAfterFailure(run, k) == run

\* whether decompress_applicant_data writes the last-decompressed stamp: only
\* when every call before it completed and the update itself does
Stamps(run, k) == run /\ k = 0

\* decompress_applicant_data(applicant_id), with store call k erroring (0: none).
\* The calls, in order: 1 get the Applicant, 2 search Personal, 3 write Personal,
\* 4 search Experience, m deletes, n creates, search Salary, write Salary,
\* update the Applicant.
DecompressApplicantData(a, k) ==
    LET fields  == applicants[a]
        has     == "Compressed JSON" \in DOMAIN fields
        parses  == has /\ JsonParses(fields["Compressed JSON"])
        data    == IF parses THEN JsonLoads(fields["Compressed JSON"]) ELSE EmptyDict
        pd      == Get(data, "personal", EmptyDict)
        ed      == Get(data, "experience", <<>>)
        sd      == Get(data, "salary", EmptyDict)
        m       == Len(Search(experience, a))
        n       == Len(ed)
        run     == Runs(parses, k)
        cause   == IF k = 1 THEN "store"
                   ELSE IF ~has THEN "nodoc"
                   ELSE IF ~parses THEN "malformed"
                   ELSE IF k # 0 THEN "store" ELSE "none"
    IN /\ k \in 0..DecompressCalls(a)
       /\ personal' = IF run /\ Done(k, 3)
                      THEN UpdatePersonalDetails(a, pd) ELSE personal
       /\ experience' = IF run /\ Done(k, 4)
                        THEN UpdateWorkExperience(a, ed, Completed(k, 5, m),
                                                  Completed(k, 5 + m, n))
                        ELSE experience
       /\ salary' = IF run /\ Done(k, 6 + m + n)
                    THEN UpdateSalaryPreferences(a, sd) ELSE salary
       /\ applicants' = IF Stamps(run, k)
                        THEN [applicants EXCEPT ![a] = DecompressedFields(now) @@ @]
                        ELSE applicants
       /\ last' = Outcome("decompress", a, IF run /\ k = 0 THEN "ok" ELSE "fail", cause,
                          IF k = 0 THEN {} ELSE {DecompressCall(k, m, n)})
       /\ UNCHANGED <<leads, evaluated>>

(***************************************************************************)
(* LLMEvaluator                                                            *)
(***************************************************************************)
\* stop_after_attempt(3): the attempts the retry wrapper gives evaluate_applicant
MaxAttempts == 3

\* the '' that fields.get('Last JSON Hash', '') gives when no hash is stored
NoDigest == <<>>

\* _hash_json: the md5 digest, taken as free of collisions on the strings here
HashJson(json_string) == <<"md5", json_string>>

\* what _parse_llm_response makes of the model's reply; the summary is '' when
\* no line of the reply starts with 'Summary:'
LLMResults ==
    {[summary |-> "", score |-> 5, issues |-> <<>>, follow_ups |-> <<>>],
     [summary |-> "Seasoned engineer", score |-> 8, issues |-> <<"no end date">>,
      follow_ups |-> <<"Which stack?">>]}

\* what _call_llm_api returns: None when the call or the prompt fails
LLMOutcomes ==
    {[ok |-> FALSE, result |-> EmptyDict]} \cup {[ok |-> TRUE, result |-> r] : r \in LLMResults}

\* _needs_evaluation(applicant_id, current_json) on the record's fields, with
\* err telling that its own read of the record errors
NeedsEvaluation(fields, current_json, err) ==
    IF err THEN TRUE
    ELSE IF Get(fields, "LLM Summary", "") = "" THEN TRUE
    ELSE Get(fields, "Last JSON Hash", NoDigest) # HashJson(current_json)

\* a faulty variant of EvaluationFields: the hash is left as it was
EvaluationFieldsKeepsHash(evaluation_result, compressed_json, t) ==
    ("LLM Summary" :> evaluation_result.summary) @@
    ("LLM Score" :> evaluation_result.score) @@
    ("LLM Follow-Ups" :> evaluation_result.follow_ups) @@
    ("LLM Issues" :> IF evaluation_result.issues # <<>>
                     THEN evaluation_result.issues ELSE <<"None">>) @@
    ("LLM Evaluation Date" :> t)

\* the update_data of _update_applicant_record; the joined texts are kept as
\* the lists they are joined from
EvaluationFields(evaluation_result, compressed_json, t) ==
    ("LLM Summary" :> evaluation_result.summary) @@
    ("LLM Score" :> evaluation_result.score) @@
    ("LLM Follow-Ups" :> evaluation_result.follow_ups) @@
    ("LLM Issues" :> IF evaluation_result.issues # <<>>
                     THEN evaluation_result.issues ELSE <<"None">>) @@
    ("LLM Evaluation Date" :> t) @@
    ("Last JSON Hash" :> HashJson(compressed_json))

\* a faulty variant of WrittenWithoutReply: the hash is stored all the same
WrittenWithoutReplyStoresHash(compressed_json, t) ==
    "Last JSON Hash" :> HashJson(compressed_json)

\* what evaluate_applicant writes to the record when _call_llm_api returned
\* None: nothing, it returns False before the update
WrittenWithoutReply(compressed_json, t) == EmptyDict

\* what one attempt meets: whether the read of the record errors, whether the
\* read inside _needs_evaluation errors, what the LLM call gives, whether the
\* update errors
AttemptInputs == [get : BOOLEAN, check : BOOLEAN, llm : LLMOutcomes, update : BOOLEAN]

\* one attempt of evaluate_applicant: what it returns or that it raises, why,
\* which calls errored, whether the LLM was called and what it writes
Attempt(a, in) ==
    LET fields == applicants[a]
        has    == "Compressed JSON" \in DOMAIN fields
        chk    == IF in.check THEN {"applicant.check"} ELSE {}
        out(result, cause, errs, asked, write) ==
            [result |-> result, cause |-> cause, errs |-> errs, asked |-> asked,
             write |-> write]
    IN IF in.get THEN out("raise", "store", {"applicant.get"}, 0, EmptyDict)
       ELSE IF ~has THEN out("false", "nodoc", {}, 0, EmptyDict)
       ELSE IF ~NeedsEvaluation(fields, fields["Compressed JSON"], in.check)
            THEN out("true", "current", {}, 0, EmptyDict)
       ELSE IF ~JsonParses(fields["Compressed JSON"])
            THEN out("raise", "malformed", chk, 0, EmptyDict)
       ELSE IF ~in.llm.ok
            THEN out("false", "llm", chk \cup {"llm"}, 1,
                     WrittenWithoutReply(fields["Compressed JSON"], now))
       ELSE IF in.update
            THEN out("raise", "store", chk \cup {"applicant.update"}, 1, EmptyDict)
       ELSE out("true", "none", chk, 1,
                EvaluationFields(in.llm.result, fields["Compressed JSON"], now))

\* the attempts that raise, after which the retry wrapper attempts again
Raising(a, ins) == {o \in {Attempt(a, in) : in \in ins} : o.result = "raise"}

\* how many of the attempts outs called the LLM
RECURSIVE Asked(_)
Asked(outs) == IF outs = <<>> THEN 0 ELSE Head(outs).asked + Asked(Tail(outs))

\* evaluate_applicant(applicant_id) under its retry wrapper, each attempt meeting
\* one of the inputs ins: n attempts, all but the last raising; the last may
\* raise only when it is attempt MaxAttempts, and the wrapper then raises to the
\* caller.  An attempt that raises writes nothing.
EvaluateApplicant(a, ins) ==
    \E n \in 1..MaxAttempts :
    \E earlier \in [1..(n - 1) -> Raising(a, ins)] :
    \E o \in {Attempt(a, in) : in \in ins} :
        LET asked == Asked(earlier) + o.asked
        IN /\ o.result = "raise" => n = MaxAttempts
           /\ applicants' = [applicants EXCEPT ![a] = o.write @@ @]
           /\ evaluated' = IF Truthy(o.write)
                           THEN [evaluated EXCEPT ![a] = applicants[a]["Compressed JSON"]]
                           ELSE evaluated
           /\ last' = Outcome("evaluate", a, o.result, o.cause, o.errs) @@
                      [attempts |-> n, asked |-> asked]
           /\ UNCHANGED <<personal, experience, salary, leads>>

(***************************************************************************)
(* The store before the first operation.                                   *)
(***************************************************************************)
\* the order the tables list the applicants' rows in
Order == <<"recA", "recB", "recC">>

\* the rows of one table: each applicant's rows linked to it, numbered in order
RECURSIVE LinkedRows(_, _)
LinkedRows(order, rows) ==
    IF order = <<>> THEN <<>>
    ELSE LET a == Head(order)
             mine == IF a \in DOMAIN rows THEN rows[a] ELSE <<>>
         IN [i \in 1..Len(mine) |-> mine[i] @@ ("Applicant" :> <<a>>)]
            \o LinkedRows(Tail(order), rows)

TableOf(rows) ==
    LET linked == LinkedRows(Order, rows)
    IN [i \in 1..Len(linked) |-> [id |-> i, fields |-> linked[i]]]

\* an Applicant record that holds a document the Compressor wrote at time 0
WithDocument(d) == CompressedFields(d, 0)

\* no operation has run yet
NoOutcome ==
    [op |-> "none", id |-> "", result |-> "", cause |-> "", errs |-> {},
     had |-> [personal |-> FALSE, salary |-> FALSE, experience |-> 0]]

\* the document of the last recorded evaluation of an applicant never evaluated
Unevaluated == [kind |-> "none", val |-> EmptyDict]

\* no batch driver is running
Idle == [kind |-> "idle", run |-> 0, aborted |-> FALSE, queue |-> <<>>, selected |-> <<>>,
         results |-> <<>>, logged |-> 0, tally |-> EmptyDict]

\* the sub-tables an applicant may have before the first operation
SubTables ==
    [p : SeqsUpTo(PersonalRows, 1), e : SeqsUpTo(ExperienceRows, MaxExp),
     s : SeqsUpTo(SalaryRows, 1)]

\* recB: a complete applicant whose rows must survive the operations on others
Bystander ==
    [p |-> <<("Full Name" :> "Bob") @@ ("Email" :> "bob@y.org")>>,
     e |-> <<("Company" :> "Hooli") @@ ("Title" :> "PM")>>,
     s |-> <<("Preferred Rate" :> 70) @@ ("Currency" :> "USD")>>]

Init ==
    \E t \in SubTables, f \in {EmptyDict} \cup {WithDocument(d) : d \in DocumentStrings} :
        /\ applicants = ("recA" :> f) @@ ("recB" :> EmptyDict)
        /\ personal = TableOf(("recA" :> t.p) @@ ("recB" :> Bystander.p))
        /\ experience = TableOf(("recA" :> t.e) @@ ("recB" :> Bystander.e))
        /\ salary = TableOf(("recA" :> t.s) @@ ("recB" :> Bystander.s))
        /\ leads = <<>>
        /\ now = 1
        /\ evaluated = [a \in {"recA", "recB"} |-> Unevaluated]
        /\ batch = Idle
        /\ last = NoOutcome

\* every operation takes one tick of the clock, and none starts after MaxClock
Tick == now <= MaxClock /\ now' = now + 1

\* compress(applicantId)
Compress ==
    \E errs \in SUBSET CompressCalls :
        /\ CompressApplicantData("recA", errs)
        /\ Tick /\ UNCHANGED batch

\* decompress(applicantId)
Decompress ==
    \E k \in 0..DecompressCalls("recA") :
        /\ DecompressApplicantData("recA", k)
        /\ Tick /\ UNCHANGED batch

Next == Compress \/ Decompress

Spec == Init /\ [][Next]_vars

(***************************************************************************)
(* ShortlistAutomation                                                     *)
(***************************************************************************)
MIN_EXPERIENCE_YEARS == 4
MAX_HOURLY_RATE_USD == 100
MIN_AVAILABILITY_HOURS == 20

TIER_ONE_COMPANIES ==
    {"Google", "Meta", "Facebook", "OpenAI", "Microsoft", "Amazon", "Apple",
     "Netflix", "Tesla", "Uber", "Airbnb", "Stripe", "Coinbase", "Alphabet",
     "DeepMind", "Anthropic", "SpaceX", "Twitter", "LinkedIn", "Salesforce"}

ALLOWED_LOCATIONS ==
    {"US", "USA", "United States", "America", "California", "New York", "Texas",
     "Canada", "Toronto", "Vancouver", "Montreal",
     "UK", "United Kingdom", "London", "England", "Scotland", "Wales",
     "Germany", "Berlin", "Munich", "Hamburg", "Frankfurt",
     "India", "Bangalore", "Mumbai", "Delhi", "Hyderabad", "Chennai", "Pune"}

\* datetime.fromisoformat on the date strings of the sample data; a string that
\* is not listed does not parse
IsoDates ==
    ("2010-01-01" :> [year |-> 2010, month |-> 1]) @@
    ("2011-01-01" :> [year |-> 2011, month |-> 1]) @@
    ("2015-01-01" :> [year |-> 2015, month |-> 1]) @@
    ("2019-06-01" :> [year |-> 2019, month |-> 6]) @@
    ("2019-07-01" :> [year |-> 2019, month |-> 7]) @@
    ("2022-12-01" :> [year |-> 2022, month |-> 12]) @@
    ("2023-01-01" :> [year |-> 2023, month |-> 1]) @@
    ("2024-01-01" :> [year |-> 2024, month |-> 1])

\* datetime.now() as a date: the clock counts the months of one year
Today(t) == [year |-> 2026, month |-> t]

\* the months one entry adds to total_months in _calculate_total_experience
EntryMonths(exp, t) ==
    LET start_date == Get(exp, "start", "")
        end_date   == Get(exp, "end", "")
        is_current == Get(exp, "current", FALSE)
        months(start, end) ==
            LET m == (end.year - start.year) * 12 + (end.month - start.month)
            IN IF m > 0 THEN m ELSE 0
    IN IF start_date = "" \/ start_date \notin DOMAIN IsoDates THEN 0
       ELSE IF is_current THEN months(IsoDates[start_date], Today(t))
       ELSE IF end_date = "" \/ end_date \notin DOMAIN IsoDates THEN 0
       ELSE months(IsoDates[start_date], IsoDates[end_date])

RECURSIVE TotalMonths(_, _)
TotalMonths(experience_data, t) ==
    IF experience_data = <<>> THEN 0
    ELSE EntryMonths(Head(experience_data), t) + TotalMonths(Tail(experience_data), t)

\* _calculate_total_experience: round(total_months / 12, 1), in tenths of a year
CalculateTotalExperience(experience_data, t) ==
    (20 * TotalMonths(experience_data, t) + 12) \div 24

\* _evaluate_experience; a company name of the sample data contains a tier-one
\* name only when it is one
EvaluateExperience(experience_data, t) ==
    \/ CalculateTotalExperience(experience_data, t) >= 10 * MIN_EXPERIENCE_YEARS
    \/ \E i \in 1..Len(experience_data) :
          Get(experience_data[i], "company", "") \in TIER_ONE_COMPANIES

\* _evaluate_compensation
EvaluateCompensation(salary_data) ==
    /\ Get(salary_data, "currency", "") = "USD"
    /\ Get(salary_data, "preferred_rate", 0) <= MAX_HOURLY_RATE_USD
    /\ Get(salary_data, "availability", 0) >= MIN_AVAILABILITY_HOURS

\* _evaluate_location; a location of the sample data contains an allowed name
\* only when it is one
EvaluateLocation(personal_data) ==
    Get(personal_data, "location", "") \in ALLOWED_LOCATIONS

\* the three criteria evaluate_applicant computes from the parsed document
Criteria(compressed_data, t) ==
    [experience   |-> EvaluateExperience(Get(compressed_data, "experience", <<>>), t),
     compensation |-> EvaluateCompensation(Get(compressed_data, "salary", EmptyDict)),
     location     |-> EvaluateLocation(Get(compressed_data, "personal", EmptyDict))]

\* the record _create_shortlisted_lead creates; the reason text is kept as the
\* criteria it is written from
LeadFields(a, compressed_data, reasons, t) ==
    ("Applicant" :> <<a>>) @@
    ("Compressed JSON" :> JsonDumps(compressed_data)) @@
    ("Score Reason" :> reasons) @@
    ("Created At" :> t) @@
    ("Auto Generated" :> TRUE)

\* the fields evaluate_applicant writes to the Applicant record
StatusFields(status, reasons, t) ==
    ("Shortlist Status" :> IF status = "shortlisted" THEN "Shortlisted" ELSE "Rejected") @@
    ("Evaluation Date" :> t) @@
    ("Evaluation Reason" :> reasons)

\* the number of table store calls evaluate_applicant makes
ShortlistCalls(a) ==
    LET fields == applicants[a]
    IN IF "Compressed JSON" \notin DOMAIN fields THEN 1
       ELSE IF ~JsonParses(fields["Compressed JSON"]) THEN 1
       ELSE LET c == Criteria(JsonLoads(fields["Compressed JSON"]), now)
            IN IF c.experience /\ c.compensation /\ c.location THEN 3 ELSE 2

\* ShortlistAutomation.evaluate_applicant(applicant_id), with store call k
\* erroring (0: none).  The calls, in order: 1 get the Applicant, then for an
\* applicant who meets all criteria 2 create the lead and 3 update the
\* Applicant, for any other 2 update the Applicant.  Every exception is caught
\* and 'rejected' returned.
ShortlistApplicant(a, k) ==
    LET fields  == applicants[a]
        has     == "Compressed JSON" \in DOMAIN fields
        parses  == has /\ JsonParses(fields["Compressed JSON"])
        compressed_data == IF parses THEN JsonLoads(fields["Compressed JSON"]) ELSE EmptyDict
        reasons == Criteria(compressed_data, now)
        run     == parses /\ k # 1
        meets   == run /\ reasons.experience /\ reasons.compensation /\ reasons.location
        status  == IF meets THEN "shortlisted" ELSE "rejected"
        cause   == IF k = 1 THEN "store"
                   ELSE IF ~has THEN "nodoc"
                   ELSE IF ~parses THEN "malformed"
                   ELSE IF k # 0 THEN "store" ELSE "none"
        call    == IF k = 1 THEN "applicant.get"
                   ELSE IF meets /\ k = 2 THEN "leads.create" ELSE "applicant.update"
    IN /\ k \in 0..ShortlistCalls(a)
       /\ leads' = IF meets /\ Done(k, 2)
                   THEN CreateRow(leads, RowIds(leads),
                                  LeadFields(a, compressed_data, reasons, now))
                   ELSE leads
       /\ applicants' = IF run /\ k = 0
                        THEN [applicants EXCEPT ![a] = StatusFields(status, reasons, now) @@ @]
                        ELSE applicants
       /\ last' = Outcome("shortlist", a, IF run /\ k = 0 THEN status ELSE "rejected", cause,
                          IF k = 0 THEN {} ELSE {call})
       /\ UNCHANGED <<personal, experience, salary, evaluated>>

(***************************************************************************)
(* The batch drivers.  A driver selects the applicants its formula matches *)
(* and then processes them one by one; batch.queue holds those still to be *)
(* processed, batch.results what each processed one returned, "raise" when *)
(* its exception reached the loop.                                         *)
(***************************************************************************)
\* the most batch runs of a behaviour
MaxRuns == 1

\* whether the Applicant record holds a document: {Compressed JSON} != ''
HasDocument(a) == "Compressed JSON" \in DOMAIN applicants[a]

\* the records get_all(formula) returns: the matching ones, in the table's order
Matching(matches) == SelectSeq(Order, LAMBDA a : a \in matches)

\* a faulty variant of PendingCompression: the document field is not looked at
PendingCompressionIgnoresDocument(a) == Search(personal, a) # <<>>

\* AND({Compressed JSON} = '', {Personal Details} != ''); the link field holds
\* the Personal Details rows linked to the applicant
PendingCompression(a) == ~HasDocument(a) /\ Search(personal, a) # <<>>

\* a faulty variant of ModifiedApplicant: the stamps are not looked at
ModifiedApplicantIgnoresStamps(a) == HasDocument(a)

\* AND({Compressed JSON} != '',
\*     OR({Last Decompressed} = '', {Last Compressed} > {Last Decompressed}))
ModifiedApplicant(a) ==
    /\ HasDocument(a)
    /\ \/ "Last Decompressed" \notin DOMAIN applicants[a]
       \/ /\ "Last Compressed" \in DOMAIN applicants[a]
          /\ applicants[a]["Last Compressed"] > applicants[a]["Last Decompressed"]

\* AND({Compressed JSON} != '', {LLM Summary} = '')
PendingEvaluation(a) == HasDocument(a) /\ Get(applicants[a], "LLM Summary", "") = ""

\* AND({Compressed JSON} != '', {Shortlist Status} = '')
PendingShortlist(a) == HasDocument(a) /\ Get(applicants[a], "Shortlist Status", "") = ""

\* a driver starts: get_all errs and the driver raises at once, or the loop is
\* entered with the selected records
Begin(kind, selected, tally, err) ==
    [kind |-> kind, run |-> batch.run + 1, aborted |-> err,
     queue |-> IF err THEN <<>> ELSE selected,
     selected |-> IF err THEN <<>> ELSE selected,
     results |-> <<>>, logged |-> 0, tally |-> tally]

\* a faulty variant of Continue: an exception that reaches the loop ends it
ContinueStopsOnRaise(queue, result) == IF result = "raise" THEN <<>> ELSE Tail(queue)

\* the loop goes on with the next record, also from its except clause
Continue(queue, result) == Tail(queue)

\* the driver's state after one record returned result (or raised)
Advance(result, tally) ==
    [batch EXCEPT !.queue = Continue(@, result),
                  !.results = Append(@, result),
                  !.logged = IF result = "raise" THEN @ + 1 ELSE @,
                  !.tally = tally]

\* a driver may start when none is running and a run is left
MayStart == batch.queue = <<>> /\ batch.run < MaxRuns

\* the loop of the driver kind is at a record
Running(kind) == batch.kind = kind /\ batch.queue # <<>>

\* compress_all_pending: the selection
CompressAllPending ==
    \E err \in BOOLEAN :
        /\ MayStart /\ Tick
        /\ batch' = Begin("compress", Matching({a \in DOMAIN applicants : PendingCompression(a)}),
                          EmptyDict, err)
        /\ UNCHANGED <<applicants, personal, experience, salary, leads, evaluated, last>>

\* compress_all_pending: one turn of the loop
CompressPending ==
    /\ Running("compress")
    /\ \E errs \in {{}, {"salary"}, {"update"}} :
        /\ CompressApplicantData(Head(batch.queue), errs)
        /\ batch' = Advance(last'.result, batch.tally)
        /\ UNCHANGED now

\* decompress_all_modified: the selection
DecompressAllModified ==
    \E err \in BOOLEAN :
        /\ MayStart /\ Tick
        /\ batch' = Begin("decompress", Matching({a \in DOMAIN applicants : ModifiedApplicant(a)}),
                          EmptyDict, err)
        /\ UNCHANGED <<applicants, personal, experience, salary, leads, evaluated, last>>

\* decompress_all_modified: one turn of the loop; the first or the last store
\* call of the decompression may error
DecompressModified ==
    /\ Running("decompress")
    /\ \E k \in {0, 1, DecompressCalls(Head(batch.queue))} :
        /\ DecompressApplicantData(Head(batch.queue), k)
        /\ batch' = Advance(last'.result, batch.tally)
        /\ UNCHANGED now

\* evaluate_all_pending: the selection
EvaluateAllPending ==
    \E err \in BOOLEAN :
        /\ MayStart /\ Tick
        /\ batch' = Begin("evaluate", Matching({a \in DOMAIN applicants : PendingEvaluation(a)}),
                          [successful |-> 0, failed |-> 0], err)
        /\ UNCHANGED <<applicants, personal, experience, salary, leads, evaluated, last>>

\* evaluate_all_pending: one turn of the loop; all attempts for a record meet
\* the same: a good reply, a failing LLM call or a failing update
EvaluatePending ==
    /\ Running("evaluate")
    /\ \E in \in {i \in AttemptInputs : ~i.get /\ ~i.check /\ (i.update => i.llm.ok)
                                     /\ (i.llm.ok => i.llm.result.summary # "")} :
        /\ EvaluateApplicant(Head(batch.queue), {in})
        /\ batch' = Advance(last'.result,
                            IF last'.result = "true"
                            THEN [batch.tally EXCEPT !.successful = @ + 1]
                            ELSE [batch.tally EXCEPT !.failed = @ + 1])
        /\ UNCHANGED now

\* evaluate_all_applicants: the selection
EvaluateAllApplicants ==
    \E err \in BOOLEAN :
        /\ MayStart /\ Tick
        /\ batch' = Begin("shortlist", Matching({a \in DOMAIN applicants : PendingShortlist(a)}),
                          [shortlisted |-> 0, rejected |-> 0], err)
        /\ UNCHANGED <<applicants, personal, experience, salary, leads, evaluated, last>>

\* evaluate_all_applicants: one turn of the loop
ShortlistPending ==
    /\ Running("shortlist")
    /\ \E k \in 0..ShortlistCalls(Head(batch.queue)) :
        /\ ShortlistApplicant(Head(batch.queue), k)
        /\ batch' = Advance(last'.result,
                            IF last'.result = "shortlisted"
                            THEN [batch.tally EXCEPT !.shortlisted = @ + 1]
                            ELSE [batch.tally EXCEPT !.rejected = @ + 1])
        /\ UNCHANGED now

(***************************************************************************)
(* The evaluator beside the compressor: SpecEval.                          *)
(***************************************************************************)
\* the documents an Applicant record may hold before the first operation
EvalDocuments == {Garbage, JsonDumps(Canonical(<<>>)), JsonDumps(HandEdited)}

\* the evaluations an Applicant record may carry before the first operation:
\* none, or the fields an evaluation of document d wrote
PriorEvaluations ==
    {[of |-> Unevaluated, fields |-> EmptyDict]} \cup
    {[of |-> d, fields |-> EvaluationFields(r, d, 0)] :
        d \in {s \in EvalDocuments : JsonParses(s)}, r \in LLMResults}

\* the applicant has all its sub-records, so that it can be compressed again
InitEval ==
    \E f \in {[of |-> Unevaluated, fields |-> EmptyDict]} \cup
              {[of |-> e.of, fields |-> WithDocument(d) @@ e.fields] :
                  d \in EvalDocuments, e \in PriorEvaluations},
       t \in {u \in SubTables : Len(u.p) = 1 /\ Len(u.e) = 1 /\ Len(u.s) = 1} :
        /\ applicants = ("recA" :> f.fields) @@ ("recB" :> EmptyDict)
        /\ personal = TableOf(("recA" :> t.p) @@ ("recB" :> Bystander.p))
        /\ experience = TableOf(("recA" :> t.e) @@ ("recB" :> Bystander.e))
        /\ salary = TableOf(("recA" :> t.s) @@ ("recB" :> Bystander.s))
        /\ leads = <<>>
        /\ now = 1
        /\ evaluated = ("recA" :> f.of) @@ ("recB" :> Unevaluated)
        /\ batch = Idle
        /\ last = NoOutcome

\* evaluate(applicantId)
Evaluate == EvaluateApplicant("recA", AttemptInputs) /\ Tick /\ UNCHANGED batch

NextEval == Evaluate \/ Compress

SpecEval == InitEval /\ [][NextEval]_vars

\* the fields both consumers left on an Applicant record when they processed
\* its document d at time 0: an evaluation with a summary, and the status of
\* the shortlisting, which rejected it
ProcessedFields(d) ==
    EvaluationFields(CHOOSE r \in LLMResults : r.summary # "", d, 0) @@
    StatusFields("rejected", Criteria(JsonLoads(d), 1), 0)

(***************************************************************************)
(* The batch drivers over three applicants: SpecBatch.                     *)
(***************************************************************************)
\* what an applicant may be before the first run: complete and not yet
\* compressed, without a Salary Preferences row, or compressed at time 0 with
\* a document the Compressor shaped
Profiles ==
    {[fields |-> EmptyDict, of |-> Unevaluated, p |-> t.p, e |-> t.e, s |-> t.s] :
        t \in {u \in SubTables : Len(u.p) = 1 /\ Len(u.e) = 1}} \cup
    {[fields |-> WithDocument(JsonDumps(Canonical(q))), of |-> Unevaluated,
      p |-> t.p, e |-> t.e, s |-> t.s] :
        q \in {x \in ListsUpTo(ExperienceEntries, 1) : \A i \in 1..Len(x) : ~x[i].current},
        t \in {u \in SubTables : Len(u.p) = 1 /\ Len(u.e) = 1 /\ Len(u.s) = 1}} \cup
    {[fields |-> EmptyDict, of |-> Unevaluated, p |-> t.p, e |-> t.e, s |-> t.s] :
        t \in {u \in SubTables : Len(u.p) = 0 /\ Len(u.e) = 1 /\ Len(u.s) = 1}} \cup
    {[fields |-> ("Last Decompressed" :> d) @@ WithDocument(JsonDumps(Canonical(<<>>))),
      of |-> Unevaluated, p |-> t.p, e |-> t.e, s |-> t.s] :
        d \in {-1, 1},
        t \in {u \in SubTables : Len(u.p) = 1 /\ Len(u.e) = 1 /\ Len(u.s) = 1}} \cup
    {[fields |-> WithDocument(c) @@ ProcessedFields(JsonDumps(HandEdited)),
      of |-> JsonDumps(HandEdited), p |-> t.p, e |-> t.e, s |-> t.s] :
        c \in {JsonDumps(HandEdited), JsonDumps(Canonical(<<>>))},
        t \in {u \in SubTables : Len(u.p) = 1 /\ Len(u.e) = 1 /\ Len(u.s) = 1}}

InitBatch ==
    \E who \in [{"recA", "recB", "recC"} -> Profiles] :
        /\ applicants = [a \in DOMAIN who |-> who[a].fields]
        /\ personal = TableOf([a \in DOMAIN who |-> who[a].p])
        /\ experience = TableOf([a \in DOMAIN who |-> who[a].e])
        /\ salary = TableOf([a \in DOMAIN who |-> who[a].s])
        /\ leads = <<>>
        /\ now = 1
        /\ evaluated = [a \in DOMAIN who |-> who[a].of]
        /\ batch = Idle
        /\ last = NoOutcome

NextBatch ==
    \/ CompressAllPending \/ CompressPending
    \/ DecompressAllModified \/ DecompressModified
    \/ EvaluateAllPending \/ EvaluatePending
    \/ EvaluateAllApplicants \/ ShortlistPending

SpecBatch == InitBatch /\ [][NextBatch]_vars

(***************************************************************************)
(* AirtableDecompressor.validate_data_integrity                            *)
(***************************************************************************)
\* the company names that occur, in the order Python's str comparison gives
CompanyOrder == <<"", "Acme", "Beta", "Globex", "Google", "Hooli", "Initech">>

\* the place of a company name in that order
Rank(c) == CHOOSE i \in DOMAIN CompanyOrder : CompanyOrder[i] = c

\* d.get(k) == e.get(j): both None, or both present and equal
SameGet(d, k, e, j) ==
    /\ (k \in DOMAIN d) <=> (j \in DOMAIN e)
    /\ k \in DOMAIN d => d[k] = e[j]

\* a faulty variant of Sorted: the items are left in the order they came in
SortedKeepsOrder(items, key) == items

\* sorted(items, key=lambda x: x.get(key, '')): stable, so an item goes behind
\* the items before it whose key is not greater
RECURSIVE Sorted(_, _)
Sorted(items, key) ==
    IF items = <<>> THEN <<>>
    ELSE LET n     == Len(items)
             x     == items[n]
             front == Sorted(SubSeq(items, 1, n - 1), key)
             keep  == Cardinality({i \in DOMAIN front :
                          Rank(Get(front[i], key, "")) <= Rank(Get(x, key, ""))})
         IN SubSeq(front, 1, keep) \o <<x>> \o SubSeq(front, keep + 1, Len(front))

\* x['fields'] of every record
Fields(records) == [i \in DOMAIN records |-> records[i].fields]

\* the comparison of _validate_experience_data, on the rows read and the
\* document's entries
ExperienceMatches(actual, expected_data) ==
    IF Len(actual) # Len(expected_data) THEN FALSE
    ELSE LET actual_sorted   == Sorted(actual, "Company")
             expected_sorted == Sorted(expected_data, "company")
         IN \A i \in 1..Len(actual) :
                /\ SameGet(actual_sorted[i], "Company", expected_sorted[i], "company")
                /\ SameGet(actual_sorted[i], "Title", expected_sorted[i], "title")

\* _validate_personal_data; a search that errors is caught: False
ValidatePersonalData(a, expected_data, err) ==
    IF err THEN FALSE
    ELSE LET records == Search(personal, a)
         IN IF records = <<>> THEN FALSE
            ELSE LET actual_data == records[1].fields
                 IN /\ SameGet(actual_data, "Full Name", expected_data, "name")
                    /\ SameGet(actual_data, "Email", expected_data, "email")
                    /\ SameGet(actual_data, "Location", expected_data, "location")
                    /\ SameGet(actual_data, "LinkedIn", expected_data, "linkedin")

\* _validate_experience_data; a search that errors is caught: False
ValidateExperienceData(a, expected_data, err) ==
    IF err THEN FALSE
    ELSE ExperienceMatches(Fields(Search(experience, a)), expected_data)

\* _validate_salary_data; a search that errors is caught: False
ValidateSalaryData(a, expected_data, err) ==
    IF err THEN FALSE
    ELSE LET records == Search(salary, a)
         IN IF records = <<>> THEN FALSE
            ELSE LET actual_data == records[1].fields
                 IN /\ SameGet(actual_data, "Preferred Rate", expected_data, "preferred_rate")
                    /\ SameGet(actual_data, "Minimum Rate", expected_data, "minimum_rate")
                    /\ SameGet(actual_data, "Currency", expected_data, "currency")
                    /\ SameGet(actual_data, "Availability", expected_data, "availability")

\* the table store calls of validate_data_integrity that may error
ValidateCalls == {"get", "personal", "experience", "salary"}

\* a faulty variant of Reraised: the helpers let a search error through
ReraisedFromHelpers(errs) == errs # {}

\* whether an erroring call reaches the except clause of
\* validate_data_integrity: the get does, the searches are caught by the helpers
Reraised(errs) == "get" \in errs

\* validate_data_integrity(applicant_id), with the store calls of errs
\* erroring; it reads only, and returns report
ValidateDataIntegrity(a, errs) ==
    LET fields == applicants[a]
        has    == "Compressed JSON" \in DOMAIN fields
        parses == has /\ JsonParses(fields["Compressed JSON"])
        compressed_data == JsonLoads(fields["Compressed JSON"])
        cause  == IF Reraised(errs) THEN "store"
                  ELSE IF ~has THEN "nodoc"
                  ELSE IF ~parses THEN "malformed" ELSE ""
        report == IF cause # "" THEN [error |-> cause]
                  ELSE [personal   |-> ValidatePersonalData(a,
                                          Get(compressed_data, "personal", EmptyDict),
                                          "personal" \in errs),
                        experience |-> ValidateExperienceData(a,
                                          Get(compressed_data, "experience", <<>>),
                                          "experience" \in errs),
                        salary     |-> ValidateSalaryData(a,
                                          Get(compressed_data, "salary", EmptyDict),
                                          "salary" \in errs)]
    IN /\ last' = Outcome("validate", a, IF cause # "" THEN "error" ELSE "map", cause,
                          IF "get" \in errs THEN {"get"}
                          ELSE IF cause # "" THEN {} ELSE errs)
                  @@ [report |-> report]
       /\ UNCHANGED <<applicants, personal, experience, salary, leads, evaluated>>

(***************************************************************************)
(* SpecValidate: decompress and validate one applicant.                    *)
(***************************************************************************)
\* Work Experience rows the applicant may have before the first operation:
\* some agree with an entry of ExperienceEntries on company and title and
\* differ elsewhere, one differs in the title, one has no title
ValidateRows ==
    { ("Company" :> "Acme") @@ ("Title" :> "Dev") @@ ("Start Date" :> "2001-01-01"),
      ("Company" :> "Acme") @@ ("Title" :> "CTO"),
      ("Company" :> "Beta") @@ ("Title" :> "Lead") @@ ("Technologies" :> <<"rust">>),
      ("Company" :> "Google") @@ ("Title" :> "SRE") @@ ("Current Position" :> FALSE),
      ("Company" :> "Globex") } \cup ExperienceRows

\* a document with two entries of one company
TwoAtAcme ==
    Canonical(<<[company |-> "Acme", title |-> "Dev"], [company |-> "Acme", title |-> "CTO"]>>)

InitValidate ==
    \E f \in {EmptyDict} \cup {WithDocument(d) : d \in DocumentStrings \cup {JsonDumps(TwoAtAcme)}},
       p \in SeqsUpTo(PersonalRows, 1),
       e \in ListsUpTo(ValidateRows, MaxExp) :
        /\ applicants = ("recA" :> f) @@ ("recB" :> EmptyDict)
        /\ personal = TableOf(("recA" :> p) @@ ("recB" :> Bystander.p))
        /\ experience = TableOf(("recA" :> e) @@ ("recB" :> Bystander.e))
        /\ salary = TableOf(("recA" :> <<>>) @@ ("recB" :> Bystander.s))
        /\ leads = <<>>
        /\ now = 1
        /\ evaluated = [a \in {"recA", "recB"} |-> Unevaluated]
        /\ batch = Idle
        /\ last = NoOutcome

\* validateIntegrity(applicantId)
Validate ==
    \E errs \in SUBSET ValidateCalls :
        /\ ValidateDataIntegrity("recA", errs)
        /\ UNCHANGED <<now, batch>>

\* decompress(applicantId); no call errors, or the last call on the Work
\* Experience table does
DecompressBeforeValidate ==
    \E k \in {0} \cup ({DecompressCalls("recA") - 3} \cap (1..DecompressCalls("recA"))) :
        /\ DecompressApplicantData("recA", k)
        /\ Tick /\ UNCHANGED batch

NextValidate == Validate \/ DecompressBeforeValidate

SpecValidate == InitValidate /\ [][NextValidate]_vars

(***************************************************************************)
(* Claims.                                                                 *)
(***************************************************************************)
\* the parsed document of applicant a in the Applicants table apps
DocOf(apps, a) == JsonLoads(apps[a]["Compressed JSON"])

\* the step is a successful decompress
DecompressedOk == last'.op = "decompress" /\ last'.result = "ok"

\* C1: after a successful decompress the Work Experience rows linked to the
\* applicant are one fresh row per entry of the document's experience list, in
\* the list's order, whatever rows were linked before; no row that was in the
\* table before the call is among them.
C1_DestructiveReplace ==
    [][DecompressedOk =>
        LET a     == last'.id
            ed    == Get(DocOf(applicants, a), "experience", <<>>)
            after == Search(experience', a)
        IN /\ Len(after) = Len(ed)
           /\ \A j \in 1..Len(ed) :
                /\ after[j].fields["Company"] = Get(ed[j], "company", "")
                /\ after[j].fields["Title"] = Get(ed[j], "title", "")
                /\ after[j].fields["Start Date"] = Get(ed[j], "start", "")
                /\ after[j].fields["Technologies"] = Get(ed[j], "technologies", <<>>)
           /\ RowIds(after) \cap RowIds(experience) = {}]_vars

\* C1 witness: a decompress succeeded for an applicant that had two rows and
\* whose document lists one entry, and one row is linked now
C1_Witness ==
    /\ last.op = "decompress" /\ last.result = "ok"
    /\ last.had.experience = 2
    /\ Len(Search(experience, last.id)) = 1
    /\ Len(DocOf(applicants, last.id).experience) = 1

\* C2 as claimed: compress returns no document if and only if the applicant has
\* no Personal or no Salary sub-record.
C2_FailsIffMissing ==
    last.op = "compress" =>
        (last.result # "doc" <=> (~last.had.personal \/ ~last.had.salary))

\* C2 amended: compress returns no document when the Personal or the Salary
\* sub-record is missing; when both exist it returns none exactly when the
\* Personal search, the Salary search or the Applicant update errors; and an
\* applicant with both and no Experience row gets a document whose experience
\* list is empty.
C2_FailsIffMissingOrStoreError ==
    last.op = "compress" =>
        /\ last.result # "doc" <=>
              \/ ~last.had.personal \/ ~last.had.salary
              \/ last.errs \cap {"personal", "salary", "update"} # {}
        /\ (last.result = "doc" /\ last.had.experience = 0) =>
              DocOf(applicants, last.id).experience = <<>>

\* C2 witness: an applicant with both sub-records and no Experience row was
\* compressed to a document with an empty experience list
C2_Witness ==
    /\ last.op = "compress" /\ last.result = "doc"
    /\ last.had.personal /\ last.had.salary /\ last.had.experience = 0
    /\ DocOf(applicants, last.id).experience = <<>>

\* C3: a compress of an applicant that lacks the Personal or the Salary
\* sub-record writes nothing to the Applicants table: the document field and the
\* last-compressed stamp stay as they were.
C3_MissingPrerequisiteNoWrite ==
    [][(last'.op = "compress" /\ (~last'.had.personal \/ ~last'.had.salary)) =>
        applicants' = applicants]_vars

\* C3 witness: a compress ran for an applicant with a Salary row and no Personal
\* row and returned none
C3_Witness ==
    /\ last.op = "compress" /\ last.cause = "missing"
    /\ last.had.salary /\ ~last.had.personal

\* C4: a compress leaves the Personal, Experience and Salary tables (and the
\* leads) as they were on every path, and changes at most the document field and
\* the last-compressed stamp of the one Applicant record.
C4_CompressOnlyWritesDocument ==
    [][last'.op = "compress" =>
        /\ personal' = personal /\ experience' = experience /\ salary' = salary
        /\ leads' = leads
        /\ \A b \in DOMAIN applicants :
              /\ b # last'.id => applicants'[b] = applicants[b]
              /\ DOMAIN applicants'[b] \subseteq
                    DOMAIN applicants[b] \cup {"Compressed JSON", "Last Compressed"}
              /\ \A f \in DOMAIN applicants[b] \ {"Compressed JSON", "Last Compressed"} :
                    f \in DOMAIN applicants'[b] /\ applicants'[b][f] = applicants[b][f]]_vars

\* C4 witness: a compress wrote a document over an earlier one
C4_Witness ==
    /\ last.op = "compress" /\ last.result = "doc"
    /\ "Last Decompressed" \in DOMAIN applicants[last.id]
    /\ applicants[last.id]["Last Compressed"] = 2

\* the entries of an experience list that are current and carry an end
CurrentWithEnd(ed) ==
    {j \in 1..Len(ed) : Get(ed[j], "current", FALSE) /\ Get(ed[j], "end", "") # ""}

\* C5: a successful decompress stores, for every entry that is current and
\* carries an end, a row with an empty End Date and Current Position true; and a
\* compress that runs next and reads the rows gives that entry end "" and
\* current true.
C5_CurrentEndNormalised ==
    [][/\ DecompressedOk =>
            LET a  == last'.id
                ed == Get(DocOf(applicants, a), "experience", <<>>)
            IN \A j \in CurrentWithEnd(ed) :
                  /\ Search(experience', a)[j].fields["End Date"] = ""
                  /\ Search(experience', a)[j].fields["Current Position"] = TRUE
       /\ ( /\ last.op = "decompress" /\ last.result = "ok"
            /\ last'.op = "compress" /\ last'.result = "doc" /\ last'.id = last.id
            /\ "experience" \notin last'.errs ) =>
            LET a  == last.id
                ed == Get(DocOf(applicants, a), "experience", <<>>)
            IN \A j \in CurrentWithEnd(ed) :
                  /\ DocOf(applicants', a).experience[j].end = ""
                  /\ DocOf(applicants', a).experience[j].current = TRUE]_vars

\* C5 witness: a compress produced an entry that is current with an empty end
\* for the company whose document entry carried an end (no row before the first
\* operation is current, so the rows are those a decompress wrote)
C5_Witness ==
    /\ last.op = "compress" /\ last.result = "doc"
    /\ \E j \in 1..Len(DocOf(applicants, last.id).experience) :
          LET e == DocOf(applicants, last.id).experience[j]
          IN e.company = "Google" /\ e.current /\ e.end = ""

\* a document with the four sections and every field of each, as the
\* Compressor shapes it
IsCanonical(d) ==
    /\ {"personal", "experience", "salary"} \subseteq DOMAIN d
    /\ DOMAIN d.personal = {"name", "email", "location", "linkedin"}
    /\ DOMAIN d.salary = {"preferred_rate", "minimum_rate", "currency", "availability"}
    /\ \A j \in 1..Len(d.experience) :
          DOMAIN d.experience[j] =
              {"company", "title", "start", "end", "technologies", "current"}

\* C6: when a canonical document with no current entry is decompressed and the
\* rows written are compressed again, the new document has the personal, the
\* experience and the salary section of the old one, field for field and with
\* the entries in the same order.
C6_RoundTrip ==
    [][( /\ last.op = "decompress" /\ last.result = "ok"
         /\ last'.op = "compress" /\ last'.result = "doc" /\ last'.id = last.id
         /\ last'.errs = {}
         /\ IsCanonical(DocOf(applicants, last.id))
         /\ \A j \in 1..Len(DocOf(applicants, last.id).experience) :
               ~DocOf(applicants, last.id).experience[j].current ) =>
        LET old == DocOf(applicants, last.id)
            new == DocOf(applicants', last.id)
        IN /\ new.personal = old.personal
           /\ new.experience = old.experience
           /\ new.salary = old.salary]_vars

\* C6 witness: the second operation, a compress, wrote a document with the two
\* entries that are not current, Beta before Acme, from rows a decompress wrote
C6_Witness ==
    /\ last.op = "compress" /\ last.result = "doc" /\ last.errs = {}
    /\ LET d == DocOf(applicants, last.id)
       IN /\ d.metadata.compressed_at = 2
          /\ d.personal.name = "Cy" /\ d.salary.preferred_rate = 50
          /\ Len(d.experience) = 2
          /\ d.experience[1].company = "Beta" /\ d.experience[2].company = "Acme"

\* whether the write of the Personal upsert completed in the decompress that ran
PersonalWritten(o) ==
    /\ o.cause \in {"none", "store"}
    /\ o.errs \cap {"applicant.get", "personal.search", "personal.write"} = {}

\* whether the write of the Salary upsert completed in the decompress that ran
SalaryWritten(o) ==
    /\ o.cause \in {"none", "store"}
    /\ o.errs \subseteq {"applicant.update"}

\* the upsert discipline, for one table before and after a decompress of
\* applicant a: no row is deleted; a linked row, if there is one, stays where it
\* is and no row is created; otherwise, once the write completed, one row is
\* created and it is linked to a
Upserted(before, after, a, written) ==
    /\ RowIds(before) \subseteq RowIds(after)
    /\ Search(before, a) # <<>> =>
          /\ Len(after) = Len(before)
          /\ RowIds(after) = RowIds(before)
    /\ (Search(before, a) = <<>> /\ written) =>
          /\ Len(after) = Len(before) + 1
          /\ Len(Search(after, a)) = 1
    /\ ~written => after = before

\* C7: a decompress upserts Personal and Salary: an existing linked row is
\* updated in place and no row is created, otherwise exactly one row is created;
\* the row written carries the document's values and the link to the applicant;
\* and no decompress, on any path, deletes a Personal or a Salary row.
C7_Upsert ==
    [][last'.op = "decompress" =>
        LET a == last'.id
        IN /\ Upserted(personal, personal', a, PersonalWritten(last'))
           /\ Upserted(salary, salary', a, SalaryWritten(last'))
           /\ PersonalWritten(last') =>
                 LET row == Search(personal', a)[1].fields
                     pd  == Get(DocOf(applicants, a), "personal", EmptyDict)
                 IN /\ row["Applicant"] = <<a>>
                    /\ row["Full Name"] = Get(pd, "name", "")
                    /\ row["Email"] = Get(pd, "email", "")
           /\ SalaryWritten(last') =>
                 LET row == Search(salary', a)[1].fields
                     sd  == Get(DocOf(applicants, a), "salary", EmptyDict)
                 IN /\ row["Applicant"] = <<a>>
                    /\ row["Preferred Rate"] = Get(sd, "preferred_rate", 0)
                    /\ row["Currency"] = Get(sd, "currency", "USD")]_vars

\* C7 witness: a decompress succeeded for an applicant that had a Personal row
\* and no Salary row: the table sizes show one update in place and one create
C7_Witness ==
    /\ last.op = "decompress" /\ last.result = "ok"
    /\ last.had.personal /\ ~last.had.salary
    /\ Len(personal) = 2 /\ Len(salary) = 2
    /\ Search(personal, last.id)[1].fields["Full Name"] = "Cy"

\* the hash stored on the Applicant record of a, NoDigest when there is none
StoredHash(a) == Get(applicants[a], "Last JSON Hash", NoDigest)

\* C8 as stated: in every reachable state the content hash stored on an
\* Applicant record equals the hash of the exact document string the Compressor
\* most recently wrote for that applicant.  Checked in the states right after
\* the Compressor wrote a document to a record that stores a hash.
C8_HashOfLastCompressed ==
    (last.op = "compress" /\ last.result = "doc"
        /\ "Last JSON Hash" \in DOMAIN applicants[last.id])
    => StoredHash(last.id) = HashJson(applicants[last.id]["Compressed JSON"])

\* C8, amended: an Applicant record stores a content hash exactly when an
\* evaluation of the applicant has been recorded, and the hash is then the hash
\* of the exact document string the evaluator read at the last recorded
\* evaluation, whatever the Compressor has written since.
C8_HashOfLastEvaluated ==
    \A a \in DOMAIN applicants :
        /\ "Last JSON Hash" \in DOMAIN applicants[a] <=> evaluated[a] # Unevaluated
        /\ evaluated[a] # Unevaluated => StoredHash(a) = HashJson(evaluated[a])

\* an evaluation was recorded for a document, the Compressor has since written
\* another one, and the record still stores the hash of the first
C8_Witness ==
    /\ last.op = "compress" /\ last.result = "doc"
    /\ evaluated["recA"] # Unevaluated
    /\ applicants["recA"]["Compressed JSON"] # evaluated["recA"]
    /\ StoredHash("recA") = HashJson(evaluated["recA"])
    /\ applicants["recA"]["LLM Evaluation Date"] = 1

\* C9 as stated: needsReprocessing(applicantId, currentDocumentString) is true
\* when the record carries no evaluation or the stored digest differs from the
\* hash of the string; right after an evaluation has recorded the digest of S
\* it is false for S and true for every other string.
C9_NeedsReprocessing ==
    /\ \A a \in DOMAIN applicants : \A s \in DocumentStrings :
          (evaluated[a] = Unevaluated \/ StoredHash(a) # HashJson(s))
              => NeedsEvaluation(applicants[a], s, FALSE)
    /\ (last.op = "evaluate" /\ last.cause = "none")
          => /\ ~NeedsEvaluation(applicants[last.id], evaluated[last.id], FALSE)
             /\ \A s \in DocumentStrings \ {evaluated[last.id]} :
                   NeedsEvaluation(applicants[last.id], s, FALSE)

\* the records of the running or last batch whose exception reached the loop
Raised == {i \in 1..Len(batch.results) : batch.results[i] = "raise"}

\* C10: in every batch driver an exception raised while one applicant is
\* processed is caught at the loop boundary and every later selected applicant
\* is still attempted: the applicants attempted so far and those still queued
\* are together the selected ones, in order, whatever was raised; each
\* exception is reported once; and a loop that has ended has attempted every
\* selected applicant.
C10_BatchIsolation ==
    /\ Len(batch.results) + Len(batch.queue) = Len(batch.selected)
    /\ batch.queue = SubSeq(batch.selected, Len(batch.results) + 1, Len(batch.selected))
    /\ batch.logged = Cardinality(Raised)

\* three applicants were pending compression, the second raised, the third was
\* compressed and one failure was reported
C10_Witness ==
    /\ batch.kind = "compress" /\ batch.queue = <<>>
    /\ batch.selected = <<"recA", "recB", "recC">>
    /\ batch.results = <<"doc", "raise", "doc">>
    /\ batch.logged = 1
    /\ ~HasDocument("recB") /\ HasDocument("recC")
    /\ last.id = "recC" /\ last.result = "doc"

\* the calls of a decompress up to and including the Personal write
PersonalCalls == {"applicant.get", "personal.search", "personal.write"}

\* the calls of a decompress on the Work Experience table
ExperienceCalls == {"experience.search", "experience.delete", "experience.create"}

\* C11 as stated: when a table-store call of a compress or of a decompress
\* errors, the operation fails and is aborted: nothing is written after the
\* failed call.  For a compress no call before the update writes, so no write
\* at all may follow an error; for a decompress the tables whose writes come
\* after the failed call, and the stamp, stay as they were.
C11_StoreErrorAborts ==
    [][/\ (last'.op = "compress" /\ last'.errs # {}) =>
              /\ last'.result # "doc"
              /\ applicants' = applicants
       /\ (last'.op = "decompress" /\ last'.errs # {}) =>
              /\ last'.result = "fail"
              /\ applicants' = applicants
              /\ last'.errs \cap PersonalCalls # {} =>
                    personal' = personal /\ experience' = experience /\ salary' = salary
              /\ last'.errs \cap ExperienceCalls # {} => salary' = salary]_vars

\* C12 as stated: a compress that fails because the Personal or the Salary
\* search errored gives its caller another outcome than the None it gives when
\* the Personal or the Salary sub-record is missing.
C12_FetchErrorDistinguishable ==
    ( /\ last.op = "compress"
      /\ last.had.personal /\ last.had.salary
      /\ last.errs \cap {"personal", "salary"} # {} )
    => last.result # "none"

\* C13: a decompress of an Applicant whose document field is not set returns
\* failure and writes nothing: the Personal, Experience and Salary tables and
\* the Applicant record, its last-decompressed stamp included, stay as they were.
C13_NoDocumentNoWrite ==
    [][(last'.op = "decompress" /\ "Compressed JSON" \notin DOMAIN applicants[last'.id]) =>
          /\ last'.result = "fail"
          /\ personal' = personal /\ experience' = experience /\ salary' = salary
          /\ applicants' = applicants]_vars

\* C13 witness: a decompress with no store error ran for an applicant that has
\* sub-records and no document, and failed
C13_Witness ==
    /\ last.op = "decompress" /\ last.result = "fail" /\ last.cause = "nodoc"
    /\ last.errs = {}
    /\ last.had.personal /\ last.had.experience > 0
    /\ "Compressed JSON" \notin DOMAIN applicants[last.id]

\* C14 as stated: for a document that does not parse, decompress gives its
\* caller a "malformed document" outcome of its own, which is neither the
\* False it returns for a missing document nor the False it returns when a
\* table-store call errors.
C14_MalformedDistinguishable ==
    (last.op = "decompress" /\ last.cause = "malformed") => last.result # "fail"

\* C15: a decompress writes the last-decompressed stamp only when the Personal
\* upsert, the Experience replace and the Salary upsert have all completed, in
\* that order; when a call of any of the three errors the later ones are not
\* made, the stamp is not written and the decompress returns failure.
C15_StampAfterAllThree ==
    [][last'.op = "decompress" =>
        LET a       == last'.id
            stamped == applicants' # applicants
        IN /\ stamped =>
                /\ last'.result = "ok" /\ last'.errs = {}
                /\ applicants'[a]["Last Decompressed"] = now
                /\ PersonalWritten(last') /\ SalaryWritten(last')
                /\ Len(Search(experience', a))
                      = Len(Get(DocOf(applicants, a), "experience", <<>>))
           /\ last'.errs # {} => ~stamped /\ last'.result = "fail"
           /\ last'.errs \cap PersonalCalls # {} =>
                 experience' = experience /\ salary' = salary
           /\ last'.errs \cap ExperienceCalls # {} => salary' = salary
           /\ last'.result = "ok" <=> stamped]_vars

\* C15 witness: the Salary write of a decompress errored after the Personal and
\* the Experience rows were written, and the record carries no stamp
C15_Witness ==
    /\ last.op = "decompress" /\ last.result = "fail"
    /\ last.errs = {"salary.write"}
    /\ Search(personal, last.id)[1].fields["Full Name"] = "Cy"
    /\ Len(Search(experience, last.id)) = 2
    /\ ~last.had.salary /\ Search(salary, last.id) = <<>>
    /\ "Last Decompressed" \notin DOMAIN applicants[last.id]

\* the number of the record a running driver is at, in its selection
Turn == Len(batch.results) + 1

\* a driver of the given kind selects in this step, and its get_all succeeds
Selects(kind) ==
    batch'.kind = kind /\ batch'.run # batch.run /\ ~batch'.aborted

\* C16: decompress_all_modified selects exactly the Applicants with a non-empty
\* document and either no last-decompressed stamp or a last-compressed stamp
\* newer than it, each once, and every decompress it invokes is for the next
\* record of that selection: one call per selected Applicant, none for another.
C16_DecompressSelection ==
    [][/\ Selects("decompress") =>
            /\ {batch'.selected[i] : i \in DOMAIN batch'.selected}
                  = {a \in DOMAIN applicants :
                        /\ "Compressed JSON" \in DOMAIN applicants[a]
                        /\ \/ "Last Decompressed" \notin DOMAIN applicants[a]
                           \/ Get(applicants[a], "Last Compressed", -9)
                                 > applicants[a]["Last Decompressed"]}
            /\ Cardinality({batch'.selected[i] : i \in DOMAIN batch'.selected})
                  = Len(batch'.selected)
            /\ batch'.queue = batch'.selected
       /\ (batch.kind = "decompress" /\ batch.queue # <<>> /\ batch' # batch) =>
            /\ last'.op = "decompress"
            /\ last'.id = batch.selected[Turn]
            /\ Len(batch'.results) = Turn
            /\ Len(batch'.queue) = Len(batch.selected) - Turn
            /\ batch'.selected = batch.selected
       /\ (batch'.run = batch.run /\ batch' # batch /\ last'.op = "decompress") =>
            batch.kind = "decompress" /\ batch.queue # <<>>]_vars

\* C16 witness: a run of decompress_all_modified is over; it decompressed recA
\* (document never decompressed) and recB (decompressed before the last
\* compression) and passed over recC, whose decompression is the newer stamp
C16_Witness ==
    /\ batch.kind = "decompress" /\ batch.queue = <<>>
    /\ batch.selected = <<"recA", "recB">> /\ batch.results = <<"ok", "ok">>
    /\ applicants["recA"]["Last Decompressed"] = now
    /\ applicants["recB"]["Last Decompressed"] = now
    /\ HasDocument("recC") /\ applicants["recC"]["Last Decompressed"] = 1
    /\ applicants["recC"]["Last Compressed"] = 0
    /\ now > 1

\* C17: compress_all_pending selects exactly the Applicants whose document
\* field is empty and whose Personal link is non-empty, each once; every
\* compress it invokes is for the next record of that selection, which has no
\* document, and no Applicant that has a document gets another one.
C17_CompressSelection ==
    [][/\ Selects("compress") =>
            /\ {batch'.selected[i] : i \in DOMAIN batch'.selected}
                  = {a \in DOMAIN applicants :
                        /\ "Compressed JSON" \notin DOMAIN applicants[a]
                        /\ \E i \in DOMAIN personal :
                              Get(personal[i].fields, "Applicant", <<>>) = <<a>>}
            /\ Cardinality({batch'.selected[i] : i \in DOMAIN batch'.selected})
                  = Len(batch'.selected)
            /\ batch'.queue = batch'.selected
       /\ (batch.kind = "compress" /\ batch.queue # <<>> /\ batch' # batch) =>
            /\ last'.op = "compress"
            /\ last'.id = batch.selected[Turn]
            /\ "Compressed JSON" \notin DOMAIN applicants[last'.id]
            /\ Len(batch'.results) = Turn
            /\ Len(batch'.queue) = Len(batch.selected) - Turn
            /\ batch'.selected = batch.selected
            /\ \A a \in DOMAIN applicants :
                  "Compressed JSON" \in DOMAIN applicants[a] => applicants'[a] = applicants[a]
       /\ (batch'.run = batch.run /\ batch' # batch /\ last'.op = "compress") =>
            batch.kind = "compress" /\ batch.queue # <<>>]_vars

\* C17 witness: a run of compress_all_pending is over; it compressed recB only,
\* passing over recA, which had a document and still has it with its stamp,
\* and recC, which has neither a document nor a Personal row
C17_Witness ==
    /\ batch.kind = "compress" /\ batch.queue = <<>>
    /\ batch.selected = <<"recB">> /\ batch.results = <<"doc">>
    /\ HasDocument("recB") /\ applicants["recB"]["Last Compressed"] = now
    /\ HasDocument("recA") /\ applicants["recA"]["Last Compressed"] = 0
    /\ ~HasDocument("recC") /\ Search(personal, "recC") = <<>>
    /\ Search(salary, "recC") # <<>>

\* the last operation was a validation that compared the Work Experience rows
Compared == last.op = "validate" /\ last.result = "map" /\ "experience" \notin last.errs

\* the permutations of 1..n
Perms(n) == {p \in [1..n -> 1..n] : \A i, j \in 1..n : i # j => p[i] # p[j]}

\* the items in the order p
Permuted(items, p) == [i \in DOMAIN items |-> items[p[i]]]

\* the items ordered by the company name under key, items of one name in the
\* order they came in
ByCompany(items, key) ==
    LET n == Len(items)
        name(i) == Rank(Get(items[i], key, ""))
        p == CHOOSE q \in Perms(n) :
                \A i, j \in 1..n :
                    i < j => \/ name(q[i]) < name(q[j])
                             \/ name(q[i]) = name(q[j]) /\ q[i] < q[j]
    IN Permuted(items, p)

\* a row and an entry agree on company and on title
Agree(row, entry) ==
    /\ Get(row, "Company", "<None>") = Get(entry, "company", "<None>")
    /\ Get(row, "Title", "<None>") = Get(entry, "title", "<None>")

\* no two items have the same company name under key
DistinctNames(items, key) ==
    \A i, j \in DOMAIN items :
        i # j => /\ key \in DOMAIN items[i] /\ key \in DOMAIN items[j]
                 /\ items[i][key] # items[j][key]

\* the items with nothing but the fields of keys
Strip(items, keys) ==
    [i \in DOMAIN items |-> [k \in DOMAIN items[i] \cap keys |-> items[i][k]]]

\* C18: validate_data_integrity reports experience = true exactly when as many
\* rows were read as the document has entries and, both ordered by company
\* name, each row agrees with its entry on company and title; with distinct
\* company names the report is the same for every order of the rows and of the
\* entries; and it is the same when every field but company and title is
\* taken away from the rows and the entries.
C18_ExperienceValidation ==
    Compared =>
        LET rows    == Fields(Search(experience, last.id))
            entries == Get(DocOf(applicants, last.id), "experience", <<>>)
        IN /\ last.report.experience <=>
                /\ Len(rows) = Len(entries)
                /\ \A i \in 1..Len(rows) :
                      Agree(ByCompany(rows, "Company")[i], ByCompany(entries, "company")[i])
           /\ (DistinctNames(rows, "Company") /\ DistinctNames(entries, "company")) =>
                \A p \in Perms(Len(rows)), q \in Perms(Len(entries)) :
                    ExperienceMatches(Permuted(rows, p), Permuted(entries, q))
                        = last.report.experience
           /\ ExperienceMatches(Strip(rows, {"Company", "Title"}),
                                Strip(entries, {"company", "title"}))
                 = last.report.experience

\* C18 witness: a validation reported experience = true for two rows that come
\* in the other order than the document's two entries and differ from them in
\* the start date and in the technologies
C18_Witness ==
    /\ Compared /\ last.report.experience
    /\ LET rows    == Fields(Search(experience, last.id))
           entries == Get(DocOf(applicants, last.id), "experience", <<>>)
       IN /\ Len(rows) = 2 /\ Len(entries) = 2
          /\ Get(rows[1], "Company", "") = "Beta" /\ Get(entries[2], "company", "") = "Beta"
          /\ Get(rows[2], "Company", "") = "Acme" /\ Get(entries[1], "company", "") = "Acme"
          /\ Get(rows[1], "Technologies", <<>>) # Get(entries[2], "technologies", <<>>)
          /\ Get(rows[2], "Start Date", "") # Get(entries[1], "start", "")

C20_UnchangedIsSkipped ==
    [][( /\ last'.op = "evaluate" /\ now' # now
         /\ evaluated[last'.id] # Unevaluated
         /\ "Compressed JSON" \in DOMAIN applicants[last'.id]
         /\ applicants[last'.id]["Compressed JSON"] = evaluated[last'.id]
         /\ last'.attempts = 1
         /\ last'.errs \cap {"applicant.get", "applicant.check"} = {} )
       => /\ last'.asked = 0
          /\ applicants' = applicants
          /\ last'.result = "true"]_vars

\* the applicants a driver selected in this step
Selected == {batch'.selected[i] : i \in DOMAIN batch'.selected}

\* the record holds a document other than the one its recorded evaluation read
ChangedSinceProcessed(a) ==
    /\ "Compressed JSON" \in DOMAIN applicants[a]
    /\ applicants[a]["Compressed JSON"] # evaluated[a]

\* C21 as stated: the batch run of the LLM evaluator selects exactly the
\* applicants with a document whose hash differs from the stored content hash,
\* and of the applicants both consumers have processed the batch run of the
\* shortlist automation selects exactly those whose document has changed
\* since: a changed document is processed again, an unchanged one is not.
C21_HashDecidesReprocessing ==
    [][/\ Selects("evaluate") =>
            Selected = {a \in DOMAIN applicants :
                           /\ "Compressed JSON" \in DOMAIN applicants[a]
                           /\ StoredHash(a) # HashJson(applicants[a]["Compressed JSON"])}
       /\ Selects("shortlist") =>
            \A a \in DOMAIN applicants :
                ("Shortlist Status" \in DOMAIN applicants[a] /\ evaluated[a] # Unevaluated)
                    => (a \in Selected <=> ChangedSinceProcessed(a))]_vars

\* C22 as stated: evaluating one applicant ends after at most 3 attempts, and
\* a failing LLM call is retried: the evaluation does not end with a failed
\* LLM call in an attempt before the third.
C22_FailingCallRetried ==
    [][(last'.op = "evaluate" /\ now' # now) =>
          /\ last'.attempts <= 3
          /\ last'.cause = "llm" => last'.attempts = 3]_vars

\* C23 as stated: the Shortlisted Leads table holds at most one row per
\* applicant, and a row only for an applicant whose Shortlist Status is
\* Shortlisted, also after a run in which a table store call failed.
C23_OneLeadPerShortlisted ==
    \A a \in DOMAIN applicants :
        /\ Len(Search(leads, a)) <= 1
        /\ Search(leads, a) # <<>> =>
              /\ "Shortlist Status" \in DOMAIN applicants[a]
              /\ applicants[a]["Shortlist Status"] = "Shortlisted"

\* C24 as stated: when a decompress has returned success and the next
\* operation is a validation whose reads succeed, the validation reports
\* personal, experience and salary all true, whatever parseable document the
\* record holds.
C24_ValidAfterDecompress ==
    [][( /\ last.op = "decompress" /\ last.result = "ok"
         /\ last'.op = "validate" /\ last'.id = last.id /\ last'.errs = {} )
       => last'.report = [personal |-> TRUE, experience |-> TRUE, salary |-> TRUE]]_vars

\* C25: when a decompress has succeeded and the next operation is a decompress
\* of the same applicant that succeeds too, the second leaves every applicant's
\* Personal, Experience and Salary rows with the field values they had after
\* the first, row for row, and the three tables as long as they were; only the
\* record ids of the replaced Experience rows differ.
C25_DecompressIdempotent ==
    [][( /\ last.op = "decompress" /\ last.result = "ok"
         /\ last'.op = "decompress" /\ last'.result = "ok"
         /\ last'.id = last.id /\ now' # now )
       => /\ \A a \in DOMAIN applicants :
                /\ Fields(Search(personal', a)) = Fields(Search(personal, a))
                /\ Fields(Search(experience', a)) = Fields(Search(experience, a))
                /\ Fields(Search(salary', a)) = Fields(Search(salary, a))
          /\ personal' = personal /\ salary' = salary
          /\ Len(experience') = Len(experience)
          /\ applicants'[last.id]["Compressed JSON"] = applicants[last.id]["Compressed JSON"]]_vars

\* C25 witness: a decompress succeeded on an applicant whose Personal and
\* Salary rows an earlier decompress had created and whose two Experience rows
\* it replaced: the tables hold one Personal row, one Salary row and two
\* Experience rows with the document's values for the applicant
C25_Witness ==
    /\ last.op = "decompress" /\ last.result = "ok" /\ now = 3
    /\ last.had.personal /\ last.had.salary /\ last.had.experience = 2
    /\ applicants[last.id]["Last Compressed"] = 0
    /\ Len(Search(personal, last.id)) = 1 /\ Search(personal, last.id)[1].id = 2
    /\ Len(Search(salary, last.id)) = 1 /\ Search(salary, last.id)[1].id = 2
    /\ Search(personal, last.id)[1].fields["Full Name"] = "Cy"
    /\ Len(Search(experience, last.id)) = 2
    /\ \A i \in 1..2 : Search(experience, last.id)[i].id > 3

\* the step is a compress that writes the applicant's document
CompressWrites == last'.op = "compress" /\ last'.result = "doc" /\ now' # now

\* C26: with the clock moving forward, a decompress that succeeds leaves the
\* applicant outside the selection of decompress_all_modified, an applicant
\* that has been decompressed and is outside the selection stays outside over
\* every step but a compress that writes its document, and a decompress that
\* fails on a selected applicant leaves it selected.
C26_SelectedUntilDecompressed ==
    [][\A a \in DOMAIN applicants :
          /\ (DecompressedOk /\ last'.id = a) => ~ModifiedApplicant(a)'
          /\ ( /\ "Last Decompressed" \in DOMAIN applicants[a]
               /\ ~ModifiedApplicant(a)
               /\ ~(CompressWrites /\ last'.id = a) )
             => ~ModifiedApplicant(a)'
          /\ ( /\ last'.op = "decompress" /\ last'.result = "fail" /\ now' # now
               /\ last'.id = a /\ ModifiedApplicant(a) )
             => ModifiedApplicant(a)']_vars

\* C26 witness: the document compress wrote at time 1 was decompressed at
\* time 2, and the applicant is outside the selection
C26_Witness ==
    /\ last.op = "decompress" /\ last.result = "ok" /\ now = 3
    /\ applicants[last.id]["Last Compressed"] = 1
    /\ applicants[last.id]["Last Decompressed"] = 2
    /\ ~ModifiedApplicant(last.id)

\* C27: when the LLM call fails for an applicant of an evaluation batch run,
\* evaluate_applicant returns False and the Applicant record is left as it
\* was, LLM Summary, LLM Score and Last JSON Hash included; the run counts
\* the applicant as failed and the applicant still matches the selection of
\* evaluate_all_pending afterwards.
C27_FailedCallLeavesPending ==
    [][\A a \in DOMAIN applicants :
          ( /\ batch.kind = "evaluate" /\ batch.queue # <<>> /\ batch' # batch
            /\ Head(batch.queue) = a /\ last'.cause = "llm" )
          => /\ last'.op = "evaluate" /\ last'.id = a /\ last'.result = "false"
             /\ last'.asked = 1
             /\ applicants' = applicants
             /\ PendingEvaluation(a) /\ PendingEvaluation(a)'
             /\ batch'.tally.failed = batch.tally.failed + 1
             /\ batch'.tally.successful = batch.tally.successful]_vars

\* C27 witness: in an evaluation batch run the LLM call failed for the last
\* applicant, who has a document, no summary, no score and no hash and is
\* counted as failed
C27_Witness ==
    /\ batch.kind = "evaluate" /\ batch.queue = <<>> /\ batch.results # <<>>
    /\ last.op = "evaluate" /\ last.cause = "llm" /\ last.result = "false"
    /\ batch.results[Len(batch.results)] = "false" /\ batch.tally.failed >= 1
    /\ HasDocument(last.id) /\ PendingEvaluation(last.id)
    /\ DOMAIN applicants[last.id] \cap {"LLM Summary", "LLM Score", "Last JSON Hash"} = {}

====
